---------------------------- MODULE Spec2Model ----------------------------
(***************************************************************************)
(* Host-direct session manager (gu-provider/src/hdman.rs): the HdMan actor *)
(* with its deploy registry, the CreateSession / SessionUpdate /           *)
(* DestroySession handlers, the continuations they spawn on the actor's    *)
(* context, and the periodic scan_for_processes.                           *)
(*                                                                         *)
(* The actor handles one message or polls one spawned future at a time.    *)
(* A spawned future runs its closures back to back until one of them       *)
(* returns a future that is not ready (a request sent to SyncExecManager,  *)
(* a download, an upload); `cur` names the request whose future is being   *)
(* polled, 0 when the actor is between polls.                              *)
(***************************************************************************)
EXTENDS Integers, Sequences, FiniteSets, TLC

(* ------------------------------ bounds -------------------------------- *)
MaxSessions == 1      \* session ids the generator draws from
MaxChildIds == 2      \* child ids the generator draws from
MaxInputs   == 4      \* requests and commands delivered to the actor in a run
MaxKeys     == 2      \* secrets random_bytes() draws from

SessionIds == 1..MaxSessions
ChildIds   == 1..MaxChildIds
Tags       == {"a", "b"}
TagLists   == {<<"a">>, <<"b", "b">>}
CreateTags == {<<"a">>}
Notes      == {"note"}

(* PeerSessionStatus *)
PENDING    == "PENDING"
CREATED    == "CREATED"
CONFIGURED == "CONFIGURED"
RUNNING    == "RUNNING"

VARIABLES
    deploys,    \* HdMan.deploys: session id -> SessionInfo
    dirs,       \* session ids whose workspace directory exists on disk
    procs,      \* OS processes spawned so far: pid -> "running"|"exited"|"killed"
    creates,    \* CreateSession continuations waiting for download+untgz
    pipes,      \* SessionUpdate future chains in flight
    reply,      \* the reply sent by the last step: <<request id, reply>>, or <<>>
    cur,        \* request whose future the actor is polling, 0 = none
    used,       \* requests and commands delivered so far
    scan,       \* <<ids whose try_wait() failed>> after a scan_for_processes, else <<>>
    ninst,      \* SessionInfo values constructed so far
    keyfiles,   \* the keystore files on disk: canonical path -> content
    account,    \* the EthAccount the caller holds, NoAccount before the first one
    calls       \* the last two EthAccount calls and what they returned, oldest first

hvars == <<deploys, dirs, procs, creates, pipes, reply, cur, used, scan, ninst>>
kvars == <<keyfiles, account, calls>>
vars  == <<deploys, dirs, procs, creates, pipes, reply, cur, used, scan, ninst,
           keyfiles, account, calls>>

(* ------------------------------ helpers ------------------------------- *)
Put(f, k, v) == [x \in DOMAIN f \cup {k} |-> IF x = k THEN v ELSE f[x]]
Drop(f, k)   == [x \in DOMAIN f \ {k} |-> f[x]]
Range(s)     == {s[i] : i \in DOMAIN s}

(* Error and its to_string(): kind, the id it names, the wrapped cause *)
Err(k, n, cause) == [k |-> k, n |-> n, cause |-> cause]
NoErr            == Err("", 0, "")
NoSuchSession(id) == Err("NoSuchSession", id, "")
NoSuchChild(id)   == Err("NoSuchChild", id, "")
IoError(cause)    == Err("IoError", 0, cause)

(* one element of a pipeline's Vec<String> *)
Out(k, n, tags) == [k |-> k, n |-> n, tags |-> tags]
ErrOut(e)       == Out(e.k, e.n, {})

ErrKinds == {"NoSuchSession", "NoSuchChild", "IoError", "ExecError",
             "MailboxError", "WrongResult", "TransferError"}

(* Command.  The commands of a SessionUpdate are drawn one at a time, when *)
(* their turn in msg.commands comes: a closure of the chain reads nothing  *)
(* of the commands behind it, so this yields the behaviours of drawing the *)
(* list when the message arrives.                                          *)
Cmd(op, child, tags) == [op |-> op, child |-> child, tags |-> tags]
Commands ==
    {Cmd(op, 0, <<>>) : op \in {"Open", "Close", "Exec", "Start",
                                "DownloadFile", "UploadFile"}}
    \cup {Cmd("Stop", c, <<>>) : c \in ChildIds}
    \cup {Cmd(op, 0, t) : op \in {"AddTags", "DelTags"}, t \in TagLists}

(* ------------------------ registry and session ------------------------ *)
(* DeployManager<SessionInfo> *)
contains_deploy(id) == id \in DOMAIN deploys

(* ids the generator may return: any id that is not registered now *)
generate_session_id == SessionIds \ DOMAIN deploys

(* id::generate_new_id over a session's process table *)
generate_new_id(processes) == ChildIds \ DOMAIN processes

(* the session is constructed with the dirty flag set *)
NewSession_dirty(tags, note, inst) ==
    [status    |-> PENDING,
     dirty     |-> TRUE,
     note      |-> note,
     processes |-> <<>>,
     tags      |-> tags,
     inst      |-> inst]

(* the session is constructed already CREATED *)
NewSession_created(tags, note, inst) ==
    [status    |-> CREATED,
     dirty     |-> FALSE,
     note      |-> note,
     processes |-> <<>>,
     tags      |-> tags,
     inst      |-> inst]

(* SessionInfo as CreateSession constructs it *)
NewSession(tags, note, inst) ==
    [status    |-> PENDING,
     dirty     |-> FALSE,
     note      |-> note,
     processes |-> <<>>,
     tags      |-> tags,
     inst      |-> inst]

(* the child is stored under an id that was not generated against the table *)
insert_process_fixed_id(sess, child, id) ==
    [sess EXCEPT !.processes = Put(@, CHOOSE c \in ChildIds : \A d \in ChildIds : c <= d, child),
                 !.dirty     = TRUE,
                 !.status    = RUNNING]

(* the child is stored and the session is not marked dirty *)
insert_process_not_dirty(sess, child, id) ==
    [sess EXCEPT !.processes = Put(@, id, child),
                 !.status    = RUNNING]

(* SessionInfo::insert_process, with the id generate_new_id returned *)
insert_process(sess, child, id) ==
    [sess EXCEPT !.processes = Put(@, id, child),
                 !.dirty     = TRUE,
                 !.status    = RUNNING]

(* Workspace::add_tags / remove_tags / get_tags: the tags are a set *)
add_tags(tags, list)    == tags \cup Range(list)
remove_tags(tags, list) == tags \ Range(list)

(* a tag that is already there is taken out again *)
RECURSIVE AddEach_toggle(_, _)
AddEach_toggle(tags, list) ==
    IF list = <<>> THEN tags
    ELSE AddEach_toggle(IF Head(list) \in tags
                        THEN tags \ {Head(list)}
                        ELSE add_tags(tags, <<Head(list)>>), Tail(list))

(* AddTags adds the tags of the command one by one *)
RECURSIVE AddEach(_, _)
AddEach(tags, list) ==
    IF list = <<>> THEN tags
    ELSE AddEach(add_tags(tags, <<Head(list)>>), Tail(list))

(* destroy() leaves the tracked children alone *)
KillAll_none(sess, failed) == procs

(* Destroy for SessionInfo: kill() and wait() on every tracked child; both *)
(* results are dropped.  failed are the children whose kill() returned     *)
(* Err: wait() returns for them once they have ended by themselves.  The   *)
(* result is the new state of the OS processes.                            *)
KillAll(sess, failed) ==
    [pid \in DOMAIN procs |->
        IF pid \in Range(sess.processes) /\ procs[pid] = "running"
        THEN IF \E id \in failed : sess.processes[id] = pid
             THEN "exited" ELSE "killed"
        ELSE procs[pid]]

(* ------------------------------ replies ------------------------------- *)
Sent(r, rep) == <<r, rep>>

Reply(op, sid, cmds, ok, out, err, pc, log) ==
    [op |-> op, sid |-> sid, cmds |-> cmds, ok |-> ok, out |-> out,
     err |-> err, pc |-> pc, log |-> log]

(* the reply of a DestroySession; failed are the children whose kill()     *)
(* returned Err during the teardown                                        *)
DestroyReply(sid, err, failed) ==
    [op |-> "DestroySession", sid |-> sid, ok |-> err = NoErr, err |-> err,
     failed |-> failed]

(* ---------------------------- future chain ---------------------------- *)
(* the future chain of one SessionUpdate: cmds are the commands of the    *)
(* message reached so far, pc the number of the closure to run next, v the *)
(* Vec<String> handed from closure to closure, log the closures entered    *)
NewPipe(sid, inst) ==
    [sid |-> sid, inst |-> inst, cmds |-> <<>>,
     pc |-> 1, v |-> <<>>, wait |-> "none", child |-> 0, log |-> <<>>]

(* the closure chained for cmd is entered *)
Begin(p, cmd) == [p EXCEPT !.cmds = Append(@, cmd), !.log = Append(@, p.pc)]

(* fut::ok(v): the next closure of the chain runs with v *)
chain_ok(p, v) == [p EXCEPT !.v = v, !.pc = @ + 1, !.wait = "none", !.child = 0]

(* the closure starts the request and returns at once, without handing    *)
(* the pending future to the chain                                          *)
chain_wait_unawaited(p, what, child) == [p EXCEPT !.child = child]

(* the closure returned a future that is not ready *)
chain_wait(p, what, child) == [p EXCEPT !.wait = what, !.child = child]

Ready(r) ==
    /\ r \in DOMAIN pipes
    /\ cur \in {0, r}
    /\ pipes[r].wait = "none"

(* the chain of r is being polled and msg.commands has a next command *)
AtCmd(r) ==
    /\ Ready(r)
    /\ used < MaxInputs
    /\ used' = used + 1

(* fut::err(v): the rest of the chain is skipped and Err(v) is the reply *)
Fail(r, p, v) ==
    /\ reply' = Sent(r,
                      Reply("SessionUpdate", p.sid, p.cmds, FALSE, v, NoErr, p.pc, p.log))
    /\ pipes' = Drop(pipes, r)
    /\ cur' = 0

(* the closure succeeded at once: the actor goes on polling the chain *)
Continue(r, p, v) ==
    /\ pipes' = [pipes EXCEPT ![r] = chain_ok(p, v)]
    /\ cur' = r
    /\ reply' = <<>>

(* the closure's future is pending: the actor is free for other work *)
Suspend(r, p, what, child) ==
    /\ pipes' = [pipes EXCEPT ![r] = chain_wait(p, what, child)]
    /\ cur' = 0
    /\ reply' = <<>>

Waiting(r, what) ==
    /\ cur = 0
    /\ r \in DOMAIN pipes
    /\ pipes[r].wait = what


(* ------------------------------ keystore ------------------------------ *)
(* ethkey/src/lib.rs: EthAccount::load_or_generate, change_password and    *)
(* save_key over the key files of a directory.  A key file holds a secret  *)
(* encrypted under a password; decrypting it with another password fails.  *)

\* random_bytes(): 0 stands for 32 bytes that SecretKey::from_raw rejects
RawKeys   == 0..MaxKeys
Passwords == {"pwd", "hekloo"}
PathNames == {"keystore.json", "./keystore.json", "other.json"}

canonicalize(path) == IF path = "./keystore.json" THEN "keystore.json" ELSE path

KeyPaths == {canonicalize(p) : p \in PathNames}

NoFile    == [kind |-> "none", secret |-> 0, password |-> ""]
Truncated == [kind |-> "truncated", secret |-> 0, password |-> ""]

\* KeyFile { crypto: secret.to_crypto(&password, KEY_ITERATIONS), .. }
KeyFile(secret, password) ==
    [kind |-> "keyfile", secret |-> secret, password |-> password]

\* KeyFile::to_secret_key(&pwd): the secret, 0 when the password is not the file's
to_secret_key(key_file, pwd) ==
    IF key_file.password = pwd THEN key_file.secret ELSE 0

public(secret)  == <<"public", secret>>
address(pubkey) == <<"address", pubkey[2]>>

EthAccount(secret, file_path) ==
    [secret |-> secret, public |-> public(secret),
     address |-> address(public(secret)),
     kestore_path |-> canonicalize(file_path)]

NoAccount ==
    [secret |-> 0, public |-> <<>>, address |-> <<>>, kestore_path |-> ""]

\* what the file system does to a write: File::create fails, the write after
\* it fails and leaves the created file cut short, or both succeed
IoOutcomes == {"ok", "create_failed", "write_failed"}

File_open_never(path) == FALSE

\* File::open(&file_path) is Ok
File_open(path) == keyfiles[path].kind # "none"

save_key_skipped(secret, path, password, io) == keyfiles

\* the key files after save_key(secret, path, password)
save_key(secret, path, password, io) ==
    CASE io = "ok"           -> [keyfiles EXCEPT ![path] = KeyFile(secret, password)]
      [] io = "write_failed" -> [keyfiles EXCEPT ![path] = Truncated]
      [] OTHER               -> keyfiles

Call(op, path, password, raw, io, ok, log_msg, acct) ==
    [op |-> op, path |-> path, password |-> password, raw |-> raw, io |-> io,
     ok |-> ok, log_msg |-> log_msg, account |-> acct]

Called(c) == IF calls = <<>> THEN <<c>> ELSE <<calls[Len(calls)], c>>

load_or_generate ==
    \E file_path \in PathNames, password \in Passwords :
        LET path     == canonicalize(file_path)
            key_file == keyfiles[path]
            call(raw, io, ok, log_msg, acct) ==
                Call("load_or_generate", path, password, raw, io, ok, log_msg, acct)
        IN  /\ IF File_open(path)
               THEN IF key_file.kind = "keyfile" /\ to_secret_key(key_file, password) # 0
                    THEN LET acct == EthAccount(to_secret_key(key_file, password), file_path)
                         IN  /\ account' = acct
                             /\ calls' = Called(call(0, "", TRUE, "loaded", acct))
                             /\ UNCHANGED keyfiles
                    ELSE /\ calls' = Called(call(0, "", FALSE, "", NoAccount))
                         /\ UNCHANGED <<keyfiles, account>>
               ELSE \E raw \in RawKeys :
                      IF raw = 0
                      THEN /\ calls' = Called(call(raw, "", FALSE, "", NoAccount))
                           /\ UNCHANGED <<keyfiles, account>>
                      ELSE \E io \in IoOutcomes :
                             /\ keyfiles' = save_key(raw, path, password, io)
                             /\ IF io = "ok"
                                THEN /\ account' = EthAccount(raw, file_path)
                                     /\ calls' = Called(call(raw, io, TRUE,
                                                    "generated and saved",
                                                    EthAccount(raw, file_path)))
                                ELSE /\ calls' = Called(call(raw, io, FALSE, "", NoAccount))
                                     /\ UNCHANGED account
            /\ UNCHANGED hvars

change_password ==
    \E new_password \in Passwords, io \in IoOutcomes :
        /\ account # NoAccount
        /\ keyfiles' = save_key(account.secret, account.kestore_path, new_password, io)
        /\ calls' = Called(Call("change_password", account.kestore_path, new_password,
                                0, io, io = "ok", "", account))
        /\ UNCHANGED account
        /\ UNCHANGED hvars

KeyInit ==
    /\ keyfiles = [p \in KeyPaths |-> NoFile]
    /\ account = NoAccount
    /\ calls = <<>>

KeyNext == load_or_generate \/ change_password

(* ------------------------------- Init --------------------------------- *)
Init ==
    /\ KeyInit
    /\ deploys = <<>>
    /\ dirs = {}
    /\ procs = <<>>
    /\ creates = <<>>
    /\ pipes = <<>>
    /\ reply = <<>>
    /\ cur = 0
    /\ used = 0
    /\ scan = <<>>
    /\ ninst = 0

(* the reply channel of a new request: the first one not in use *)
NewReq ==
    CHOOSE r \in 1..MaxInputs :
        /\ r \notin DOMAIN pipes \cup DOMAIN creates
        /\ \A q \in 1..(r - 1) : q \in DOMAIN pipes \cup DOMAIN creates

(* a run delivers at most MaxInputs requests and commands *)
Budget == used < MaxInputs

Idle == cur = 0 /\ Budget

(* --------------------------- CreateSession ---------------------------- *)
(* the id of the new session is drawn without looking at the registry *)
CreateSession_any_id ==
    /\ Idle
    /\ \E session_id \in SessionIds, tags \in CreateTags, note \in Notes :
        /\ dirs' = dirs \cup {session_id}
        /\ deploys' = Put(deploys, session_id, NewSession(add_tags({}, tags), note, ninst + 1))
        /\ creates' = Put(creates, NewReq, [sid |-> session_id, inst |-> ninst + 1])
    /\ ninst' = ninst + 1
    /\ used' = used + 1
    /\ reply' = <<>>
    /\ UNCHANGED <<procs, pipes, cur>>
    /\ scan' = <<>>
    /\ UNCHANGED kvars

(* Handler<CreateSession>::handle up to ActorResponse::async: the session  *)
(* is registered PENDING and download+untgz is started                     *)
CreateSession ==
    /\ Idle
    /\ \E session_id \in generate_session_id, tags \in CreateTags, note \in Notes :
        /\ dirs' = dirs \cup {session_id}
        /\ deploys' = Put(deploys, session_id, NewSession(add_tags({}, tags), note, ninst + 1))
        /\ creates' = Put(creates, NewReq, [sid |-> session_id, inst |-> ninst + 1])
    /\ ninst' = ninst + 1
    /\ used' = used + 1
    /\ reply' = <<>>
    /\ UNCHANGED <<procs, pipes, cur>>
    /\ scan' = <<>>
    /\ UNCHANGED kvars

(* workspace.create_dirs() fails: the handler replies at once *)
CreateSessionDirsFailed ==
    /\ Idle
    /\ \E session_id \in generate_session_id :
        reply' = Sent(NewReq,
                       Reply("CreateSession", session_id, <<>>, FALSE, <<>>,
                             IoError("create_dirs"), 0, <<>>))
    /\ used' = used + 1
    /\ UNCHANGED <<deploys, dirs, procs, creates, pipes, cur, ninst>>
    /\ scan' = <<>>
    /\ UNCHANGED kvars

(* DeployManager::destroy_deploy: the session's destroy(), and the entry   *)
(* is removed when destroy() returned Ok.  clear_ok is the outcome of      *)
(* workspace.clear_dir().  The result is the error, NoErr for Ok.          *)
destroy_result(session_id, clear_ok) ==
    IF ~contains_deploy(session_id) THEN NoSuchSession(session_id)
    ELSE IF clear_ok THEN NoErr
    ELSE IoError("clear_dir")

(* the outcomes kill() can have on the children of a session *)
KillFails(session_id) ==
    IF contains_deploy(session_id)
    THEN SUBSET DOMAIN deploys[session_id].processes ELSE {{}}

destroy_deploy(session_id, clear_ok, failed) ==
    IF ~contains_deploy(session_id)
    THEN UNCHANGED <<deploys, dirs, procs>>
    ELSE /\ procs' = KillAll(deploys[session_id], failed)
         /\ IF clear_ok
            THEN /\ deploys' = Drop(deploys, session_id)
                 /\ dirs' = dirs \ {session_id}
            ELSE UNCHANGED <<deploys, dirs>>

(* the rollback reports a generic error and drops the cause *)
rollback_error_generic(e, destroyed) ==
    IF destroyed = NoErr THEN IoError("rollback") ELSE destroyed

(* the map_err closure of CreateSession: roll the session back *)
rollback_error(e, destroyed) ==
    IF destroyed = NoErr THEN IoError(e.k) ELSE destroyed

(* download and untgz succeeded: the and_then closure marks the session    *)
(* CREATED, or fails with NoSuchSession and falls into map_err             *)
ProvisionDone(r) ==
    /\ cur = 0
    /\ r \in DOMAIN creates
    /\ LET session_id == creates[r].sid IN
       IF contains_deploy(session_id)
       THEN /\ deploys' = [deploys EXCEPT ![session_id].status = CREATED]
            /\ reply' = Sent(r,
                              Reply("CreateSession", session_id, <<>>, TRUE, <<>>,
                                    NoErr, 0, <<>>))
            /\ UNCHANGED <<dirs, procs>>
       ELSE /\ destroy_deploy(session_id, TRUE, {})
            /\ reply' = Sent(r,
                              Reply("CreateSession", session_id, <<>>, FALSE, <<>>,
                                    rollback_error(NoSuchSession(session_id),
                                                   destroy_result(session_id, TRUE)),
                                    0, <<>>))
    /\ creates' = Drop(creates, r)
    /\ UNCHANGED <<pipes, cur, used, ninst>>
    /\ scan' = <<>>
    /\ UNCHANGED kvars

(* the error is passed on without rolling the session back *)
ProvisionFailed_no_rollback(r) ==
    /\ cur = 0
    /\ r \in DOMAIN creates
    /\ \E cause \in {"TransferError", "UnpackError"} :
        reply' = Sent(r, Reply("CreateSession", creates[r].sid, <<>>, FALSE, <<>>,
                               IoError(cause), 0, <<>>))
    /\ creates' = Drop(creates, r)
    /\ UNCHANGED <<deploys, dirs, procs, pipes, cur, used, ninst>>
    /\ scan' = <<>>
    /\ UNCHANGED kvars

(* download or untgz failed: map_err destroys the session *)
ProvisionFailed(r) ==
    /\ cur = 0
    /\ r \in DOMAIN creates
    /\ \E cause \in {"TransferError", "UnpackError"}, clear_ok \in BOOLEAN,
          failed \in KillFails(creates[r].sid) :
        LET session_id == creates[r].sid IN
        /\ destroy_deploy(session_id, clear_ok, failed)
        /\ reply' = Sent(r,
                          Reply("CreateSession", session_id, <<>>, FALSE, <<>>,
                                rollback_error(Err(cause, 0, ""),
                                               destroy_result(session_id, clear_ok)),
                                0, <<>>))
    /\ creates' = Drop(creates, r)
    /\ UNCHANGED <<pipes, cur, used, ninst>>
    /\ scan' = <<>>
    /\ UNCHANGED kvars

(* --------------------------- DestroySession --------------------------- *)
(* the entry is removed whatever the teardown returned *)
DestroySession_entry_dropped ==
    /\ Idle
    /\ \E session_id \in SessionIds, clear_ok \in BOOLEAN :
      \E failed \in KillFails(session_id) :
        /\ IF contains_deploy(session_id)
           THEN /\ procs' = KillAll(deploys[session_id], failed)
                /\ deploys' = Drop(deploys, session_id)
                /\ dirs' = IF clear_ok THEN dirs \ {session_id} ELSE dirs
           ELSE UNCHANGED <<deploys, dirs, procs>>
        /\ reply' = Sent(NewReq,
                          DestroyReply(session_id,
                                       destroy_result(session_id, clear_ok), failed))
    /\ used' = used + 1
    /\ UNCHANGED <<creates, pipes, cur, ninst>>
    /\ scan' = <<>>
    /\ UNCHANGED kvars

DestroySession ==
    /\ Idle
    /\ \E session_id \in SessionIds, clear_ok \in BOOLEAN :
      \E failed \in KillFails(session_id) :
        /\ destroy_deploy(session_id, clear_ok, failed)
        /\ reply' = Sent(NewReq,
                          DestroyReply(session_id,
                                       destroy_result(session_id, clear_ok), failed))
    /\ used' = used + 1
    /\ UNCHANGED <<creates, pipes, cur, ninst>>
    /\ scan' = <<>>
    /\ UNCHANGED kvars

(* ---------------------------- GetSessions ---------------------------- *)
(* the sequences that list the elements of S, each once *)
Enumerations(S) ==
    {f \in [1..Cardinality(S) -> S] : \A x \in S : \E i \in DOMAIN f : f[i] = x}

(* every session is reported CREATED *)
convert_status_created(sess, id, keys) ==
    [id        |-> id,
     status    |-> CREATED,
     tags      |-> sess.tags,
     note      |-> sess.note,
     processes |-> keys]

(* IntoDeployInfo for SessionInfo: the PeerSessionInfo of a session; keys   *)
(* is processes.keys() collected into a Vec (the name of the workspace is  *)
(* copied like the note and is left out)                                   *)
convert(sess, id, keys) ==
    [id        |-> id,
     status    |-> sess.status,
     tags      |-> sess.tags,
     note      |-> sess.note,
     processes |-> keys]

(* processes.keys() of every session, each in the order its map iterates *)
KeyOrders ==
    {keys \in [DOMAIN deploys ->
                 UNION {Enumerations(DOMAIN deploys[s].processes) : s \in DOMAIN deploys}] :
        \A s \in DOMAIN deploys : keys[s] \in Enumerations(DOMAIN deploys[s].processes)}

(* DeployManager::deploys_info: convert() of every deploy, in the order    *)
(* the registry iterates                                                   *)
deploys_info(order, keys) ==
    [i \in DOMAIN order |-> convert(deploys[order[i]], order[i], keys[order[i]])]

(* Handler<GetSessions>::handle *)
GetSessions ==
    /\ Idle
    /\ \E order \in Enumerations(DOMAIN deploys), keys \in KeyOrders :
        reply' = Sent(NewReq,
                       [op |-> "GetSessions", sid |-> 0, ok |-> TRUE,
                        infos |-> deploys_info(order, keys)])
    /\ used' = used + 1
    /\ UNCHANGED <<deploys, dirs, procs, creates, pipes, cur, ninst>>
    /\ scan' = <<>>
    /\ UNCHANGED kvars

(* a child whose poll failed is taken for finished *)
finished_on_error(sess, pollerr) ==
    {id \in DOMAIN sess.processes :
        procs[sess.processes[id]] # "running" \/ id \in pollerr}

(* ------------------------------ Reaper -------------------------------- *)
(* try_wait() of a tracked child: Ok(Some(_)) once it has exited and the   *)
(* poll did not fail; pollerr are the children whose poll returns Err      *)
finished(sess, pollerr) ==
    {id \in DOMAIN sess.processes :
        procs[sess.processes[id]] # "running" /\ id \notin pollerr}

(* the status is set whenever the table is empty after the scan *)
scan_session_empty_configured(sess, pollerr) ==
    LET fin  == finished(sess, pollerr)
        left == [id \in DOMAIN sess.processes \ fin |-> sess.processes[id]]
    IN  [sess EXCEPT !.processes = left,
                     !.status = IF DOMAIN left = {} THEN CONFIGURED ELSE @]

scan_session(sess, pollerr) ==
    LET fin  == finished(sess, pollerr)
        left == [id \in DOMAIN sess.processes \ fin |-> sess.processes[id]]
    IN  [sess EXCEPT !.processes = left,
                     !.status = IF fin # {} /\ DOMAIN left = {}
                                THEN CONFIGURED ELSE @]

(* the child ids tracked by some session *)
Tracked == UNION {DOMAIN deploys[s].processes : s \in DOMAIN deploys}

(* the scan is put off while a Stop waits for its kill *)
Reaper_excluded ==
    /\ cur = 0
    /\ \A r \in DOMAIN pipes : pipes[r].wait # "kill"
    /\ \E pollerr \in SUBSET Tracked :
        /\ deploys' = [s \in DOMAIN deploys |-> scan_session(deploys[s], pollerr)]
        /\ scan' = <<pollerr>>
        /\ UNCHANGED kvars
    /\ reply' = <<>>
    /\ UNCHANGED <<dirs, procs, creates, pipes, cur, used, ninst>>

(* HdMan::scan_for_processes, run by the interval timer *)
Reaper ==
    /\ cur = 0
    /\ \E pollerr \in SUBSET Tracked :
        /\ deploys' = [s \in DOMAIN deploys |-> scan_session(deploys[s], pollerr)]
        /\ scan' = <<pollerr>>
        /\ UNCHANGED kvars
    /\ reply' = <<>>
    /\ UNCHANGED <<dirs, procs, creates, pipes, cur, used, ninst>>

(* a spawned process exits by itself *)
ChildExit ==
    /\ \E pid \in DOMAIN procs :
        /\ procs[pid] = "running"
        /\ procs' = [procs EXCEPT ![pid] = "exited"]
    /\ reply' = <<>>
    /\ UNCHANGED <<deploys, dirs, creates, pipes, cur, used, ninst>>
    /\ scan' = <<>>
    /\ UNCHANGED kvars


(* --------------------------- SessionUpdate ---------------------------- *)
(* the chain is built without the contains_deploy check *)
SessionUpdate_unchecked ==
    /\ Idle
    /\ \E session_id \in SessionIds :
        pipes' = Put(pipes, NewReq,
                     NewPipe(session_id, IF contains_deploy(session_id)
                                         THEN deploys[session_id].inst ELSE 0))
    /\ used' = used + 1
    /\ reply' = <<>>
    /\ UNCHANGED <<deploys, dirs, procs, creates, cur, ninst>>
    /\ scan' = <<>>
    /\ UNCHANGED kvars

(* Handler<SessionUpdate>::handle: the unknown session is refused at once, *)
(* otherwise the chain is built and handed to the context                  *)
SessionUpdate ==
    /\ Idle
    /\ \E session_id \in SessionIds :
        /\ contains_deploy(session_id)
        /\ pipes' = Put(pipes, NewReq,
                        NewPipe(session_id, deploys[session_id].inst))
    /\ used' = used + 1
    /\ reply' = <<>>
    /\ UNCHANGED <<deploys, dirs, procs, creates, cur, ninst>>
    /\ scan' = <<>>
    /\ UNCHANGED kvars

SessionUpdateRefused ==
    /\ Idle
    /\ \E session_id \in SessionIds :
        /\ ~contains_deploy(session_id)
        /\ reply' = Sent(NewReq,
                          Reply("SessionUpdate", session_id, <<>>, FALSE,
                                <<ErrOut(NoSuchSession(session_id))>>, NoErr, 0, <<>>))
    /\ used' = used + 1
    /\ UNCHANGED <<deploys, dirs, procs, creates, pipes, cur, ninst>>
    /\ scan' = <<>>
    /\ UNCHANGED kvars

(* Open and Close look the session up and fail when it is gone *)
PassOpenClose_checks_session(r) ==
    /\ AtCmd(r)
    /\ \E op \in {"Open", "Close"} :
        LET p == [pipes[r] EXCEPT !.cmds = Append(@, Cmd(op, 0, <<>>))] IN
        IF contains_deploy(p.sid)
        THEN /\ pipes' = [pipes EXCEPT ![r] = p]
             /\ reply' = <<>>
             /\ UNCHANGED cur
        ELSE Fail(r, p, Append(p.v, ErrOut(NoSuchSession(p.sid))))
    /\ UNCHANGED <<deploys, dirs, procs, creates, ninst>>
    /\ scan' = <<>>
    /\ UNCHANGED kvars

(* Open and Close chain a closure that pushes an output of their own *)
PassOpenClose_pushes(r) ==
    /\ AtCmd(r)
    /\ \E op \in {"Open", "Close"} :
        pipes' = [pipes EXCEPT ![r].cmds = Append(@, Cmd(op, 0, <<>>)),
                               ![r].v = Append(@, Out("none", 0, {}))]
    /\ reply' = <<>>
    /\ UNCHANGED <<deploys, dirs, procs, creates, cur, ninst>>
    /\ scan' = <<>>
    /\ UNCHANGED kvars

(* Command::Open / Command::Close: the loop chains nothing for them *)
PassOpenClose(r) ==
    /\ AtCmd(r)
    /\ \E op \in {"Open", "Close"} :
        pipes' = [pipes EXCEPT ![r].cmds = Append(@, Cmd(op, 0, <<>>))]
    /\ reply' = <<>>
    /\ UNCHANGED <<deploys, dirs, procs, creates, cur, ninst>>
    /\ scan' = <<>>
    /\ UNCHANGED kvars

(* msg.commands and the chain are exhausted: Ok(v) is the reply *)
PipeFinish(r) ==
    /\ Ready(r)
    /\ reply' = Sent(r,
                      Reply("SessionUpdate", pipes[r].sid, pipes[r].cmds, TRUE,
                            pipes[r].v, NoErr, pipes[r].pc, pipes[r].log))
    /\ pipes' = Drop(pipes, r)
    /\ cur' = 0
    /\ UNCHANGED <<deploys, dirs, procs, creates, used, ninst>>
    /\ scan' = <<>>
    /\ UNCHANGED kvars

(* Command::Exec: Exec::Run is sent to SyncExecManager *)
StepExec(r) ==
    /\ AtCmd(r)
    /\ Suspend(r, Begin(pipes[r], Cmd("Exec", 0, <<>>)), "exec", 0)
    /\ UNCHANGED <<deploys, dirs, procs, creates, ninst>>
    /\ scan' = <<>>
    /\ UNCHANGED kvars

(* the send or the run failed: flatten_fut's error goes through map_err *)
ExecFailed(r) ==
    /\ Waiting(r, "exec")
    /\ Fail(r, pipes[r], Append(pipes[r].v, Out("ExecError", 0, {})))
    /\ UNCHANGED <<deploys, dirs, procs, creates, used, ninst>>
    /\ scan' = <<>>
    /\ UNCHANGED kvars

(* ExecResult::Run(output): stdout is pushed, then the session is looked up *)
ExecDone(r) ==
    /\ Waiting(r, "exec")
    /\ LET p  == pipes[r]
           v1 == Append(p.v, Out("stdout", 0, {}))
       IN  IF contains_deploy(p.sid)
           THEN /\ deploys' = [deploys EXCEPT ![p.sid].dirty = TRUE]
                /\ Continue(r, p, v1)
           ELSE /\ Fail(r, p, Append(v1, ErrOut(NoSuchSession(p.sid))))
                /\ UNCHANGED deploys
    /\ UNCHANGED <<dirs, procs, creates, used, ninst>>
    /\ scan' = <<>>
    /\ UNCHANGED kvars

(* Command::Start: process::Command::spawn() fails *)
StartSpawnFailed(r) ==
    /\ AtCmd(r)
    /\ Fail(r, Begin(pipes[r], Cmd("Start", 0, <<>>)),
            Append(pipes[r].v, ErrOut(IoError("spawn"))))
    /\ UNCHANGED <<deploys, dirs, procs, creates, ninst>>
    /\ scan' = <<>>
    /\ UNCHANGED kvars

(* Command::Start: the process is spawned, then insert_child *)
StepStart(r) ==
    /\ AtCmd(r)
    /\ procs' = Append(procs, "running")
    /\ LET p     == Begin(pipes[r], Cmd("Start", 0, <<>>))
           child == Len(procs) + 1
       IN  IF contains_deploy(p.sid)
           THEN \E id \in generate_new_id(deploys[p.sid].processes) :
                /\ deploys' = [deploys EXCEPT
                                 ![p.sid] = insert_process(@, child, id)]
                /\ Continue(r, p, Append(p.v, Out("child", id, {})))
           ELSE /\ Fail(r, p, Append(p.v, ErrOut(NoSuchSession(p.sid))))
                /\ UNCHANGED deploys
    /\ UNCHANGED <<dirs, creates, ninst>>
    /\ scan' = <<>>
    /\ UNCHANGED kvars

(* a Stop of a child that is not tracked is taken for a completed Stop *)
StepStop_missing_ok(r) ==
    /\ AtCmd(r)
    /\ \E child_id \in ChildIds :
       LET p == Begin(pipes[r], Cmd("Stop", child_id, <<>>))
       IN  IF ~contains_deploy(p.sid)
           THEN /\ Fail(r, p, Append(p.v, ErrOut(NoSuchSession(p.sid))))
                /\ UNCHANGED deploys
           ELSE IF child_id \notin DOMAIN deploys[p.sid].processes
           THEN /\ deploys' = [deploys EXCEPT ![p.sid].status =
                                 IF DOMAIN deploys[p.sid].processes = {}
                                 THEN CONFIGURED ELSE @]
                /\ Continue(r, p, Append(p.v, Out("killed", 0, {})))
           ELSE /\ deploys' = [deploys EXCEPT ![p.sid].processes = Drop(@, child_id)]
                /\ Suspend(r, p, "kill", deploys[p.sid].processes[child_id])
    /\ UNCHANGED <<dirs, procs, creates, ninst>>
    /\ scan' = <<>>
    /\ UNCHANGED kvars

(* a Stop of a child that is not tracked puts the session back as it was   *)
(* created: no tracked children, tags as the pipeline found them            *)
StepStop_rollback(r) ==
    /\ AtCmd(r)
    /\ \E child_id \in ChildIds :
       LET p == Begin(pipes[r], Cmd("Stop", child_id, <<>>))
       IN  IF ~contains_deploy(p.sid)
           THEN /\ Fail(r, p, Append(p.v, ErrOut(NoSuchSession(p.sid))))
                /\ UNCHANGED deploys
           ELSE IF child_id \notin DOMAIN deploys[p.sid].processes
           THEN /\ Fail(r, p, Append(p.v, ErrOut(NoSuchChild(child_id))))
                /\ deploys' = [deploys EXCEPT ![p.sid].processes = <<>>,
                                              ![p.sid].tags = {}]
           ELSE /\ deploys' = [deploys EXCEPT ![p.sid].processes = Drop(@, child_id)]
                /\ Suspend(r, p, "kill", deploys[p.sid].processes[child_id])
    /\ UNCHANGED <<dirs, procs, creates, ninst>>
    /\ scan' = <<>>
    /\ UNCHANGED kvars

(* Command::Stop: the child is taken out of the table and Exec::Kill(child) *)
(* is sent; a missing session or child fails the command at once            *)
StepStop(r) ==
    /\ AtCmd(r)
    /\ \E child_id \in ChildIds :
       LET p == Begin(pipes[r], Cmd("Stop", child_id, <<>>))
       IN  IF ~contains_deploy(p.sid)
           THEN /\ Fail(r, p, Append(p.v, ErrOut(NoSuchSession(p.sid))))
                /\ UNCHANGED deploys
           ELSE IF child_id \notin DOMAIN deploys[p.sid].processes
           THEN /\ Fail(r, p, Append(p.v, ErrOut(NoSuchChild(child_id))))
                /\ UNCHANGED deploys
           ELSE /\ deploys' = [deploys EXCEPT ![p.sid].processes = Drop(@, child_id)]
                /\ Suspend(r, p, "kill", deploys[p.sid].processes[child_id])
    /\ UNCHANGED <<dirs, procs, creates, ninst>>
    /\ scan' = <<>>
    /\ UNCHANGED kvars

(* the send of Exec::Kill failed (MailboxError): map_err *)
KillMailboxError(r) ==
    /\ Waiting(r, "kill")
    /\ Fail(r, pipes[r], Append(pipes[r].v, Out("MailboxError", 0, {})))
    /\ UNCHANGED <<deploys, dirs, procs, creates, used, ninst>>
    /\ scan' = <<>>
    /\ UNCHANGED kvars

(* the reply is not Ok(ExecResult::Kill(_)) *)
KillWrongResult(r) ==
    /\ Waiting(r, "kill")
    /\ Fail(r, pipes[r], Append(pipes[r].v, Out("WrongResult", 0, {})))
    /\ UNCHANGED <<deploys, dirs, procs, creates, used, ninst>>
    /\ scan' = <<>>
    /\ UNCHANGED kvars

(* the kill completes and the status is left as it was *)
KillDone_status_kept(r) ==
    /\ Waiting(r, "kill")
    /\ LET p == pipes[r] IN
       /\ procs' = [procs EXCEPT ![p.child] = IF @ = "running" THEN "killed" ELSE @]
       /\ IF contains_deploy(p.sid)
          THEN /\ UNCHANGED deploys
               /\ Continue(r, p, Append(p.v, Out("killed", 0, {})))
          ELSE /\ Fail(r, p, Append(p.v, ErrOut(NoSuchSession(p.sid))))
               /\ UNCHANGED deploys
    /\ UNCHANGED <<dirs, creates, used, ninst>>
    /\ scan' = <<>>
    /\ UNCHANGED kvars

(* Ok(ExecResult::Kill(output)): the child was killed and waited for *)
KillDone(r) ==
    /\ Waiting(r, "kill")
    /\ LET p == pipes[r] IN
       /\ procs' = [procs EXCEPT ![p.child] = IF @ = "running" THEN "killed" ELSE @]
       /\ IF contains_deploy(p.sid)
          THEN /\ deploys' = [deploys EXCEPT ![p.sid].status =
                                IF DOMAIN deploys[p.sid].processes = {}
                                THEN CONFIGURED ELSE @]
               /\ Continue(r, p, Append(p.v, Out("killed", 0, {})))
          ELSE /\ Fail(r, p, Append(p.v, ErrOut(NoSuchSession(p.sid))))
               /\ UNCHANGED deploys
    /\ UNCHANGED <<dirs, creates, used, ninst>>
    /\ scan' = <<>>
    /\ UNCHANGED kvars

(* the output lists the tags the session had before the command *)
StepAddTags_stale_output(r) ==
    /\ AtCmd(r)
    /\ \E list \in TagLists :
       LET p == Begin(pipes[r], Cmd("AddTags", 0, list)) IN
       IF contains_deploy(p.sid)
       THEN LET tags == AddEach(deploys[p.sid].tags, list) IN
            /\ deploys' = [deploys EXCEPT ![p.sid].tags = tags]
            /\ Continue(r, p, Append(p.v, Out("tags inserted", 0, deploys[p.sid].tags)))
       ELSE /\ Fail(r, p, Append(p.v, ErrOut(NoSuchSession(p.sid))))
            /\ UNCHANGED deploys
    /\ UNCHANGED <<dirs, procs, creates, ninst>>
    /\ scan' = <<>>
    /\ UNCHANGED kvars

(* Command::AddTags / Command::DelTags *)
StepAddTags(r) ==
    /\ AtCmd(r)
    /\ \E list \in TagLists :
       LET p == Begin(pipes[r], Cmd("AddTags", 0, list)) IN
       IF contains_deploy(p.sid)
       THEN LET tags == AddEach(deploys[p.sid].tags, list) IN
            /\ deploys' = [deploys EXCEPT ![p.sid].tags = tags]
            /\ Continue(r, p, Append(p.v, Out("tags inserted", 0, tags)))
       ELSE /\ Fail(r, p, Append(p.v, ErrOut(NoSuchSession(p.sid))))
            /\ UNCHANGED deploys
    /\ UNCHANGED <<dirs, procs, creates, ninst>>
    /\ scan' = <<>>
    /\ UNCHANGED kvars

StepDelTags(r) ==
    /\ AtCmd(r)
    /\ \E list \in TagLists :
       LET p == Begin(pipes[r], Cmd("DelTags", 0, list)) IN
       IF contains_deploy(p.sid)
       THEN LET tags == remove_tags(deploys[p.sid].tags, list) IN
            /\ deploys' = [deploys EXCEPT ![p.sid].tags = tags]
            /\ Continue(r, p, Append(p.v, Out("tags removed", 0, tags)))
       ELSE /\ Fail(r, p, Append(p.v, ErrOut(NoSuchSession(p.sid))))
            /\ UNCHANGED deploys
    /\ UNCHANGED <<dirs, procs, creates, ninst>>
    /\ scan' = <<>>
    /\ UNCHANGED kvars

(* handle_download_file / handle_upload_file: the transfer is started *)
StepDownloadFile(r) ==
    /\ AtCmd(r)
    /\ Suspend(r, Begin(pipes[r], Cmd("DownloadFile", 0, <<>>)), "download", 0)
    /\ UNCHANGED <<deploys, dirs, procs, creates, ninst>>
    /\ scan' = <<>>
    /\ UNCHANGED kvars

StepUploadFile(r) ==
    /\ AtCmd(r)
    /\ Suspend(r, Begin(pipes[r], Cmd("UploadFile", 0, <<>>)), "upload", 0)
    /\ UNCHANGED <<deploys, dirs, procs, creates, ninst>>
    /\ scan' = <<>>
    /\ UNCHANGED kvars

(* client::put(..).streaming(..) returns Err: the command fails at once *)
UploadRequestFailed(r) ==
    /\ AtCmd(r)
    /\ Fail(r, Begin(pipes[r], Cmd("UploadFile", 0, <<>>)),
            Append(pipes[r].v, Out("TransferError", 0, {})))
    /\ UNCHANGED <<deploys, dirs, procs, creates, ninst>>
    /\ scan' = <<>>
    /\ UNCHANGED kvars

TransferDone(r) ==
    /\ \E what \in {"download", "upload"} :
        /\ Waiting(r, what)
        /\ Continue(r, pipes[r], Append(pipes[r].v, Out(what, 0, {})))
    /\ UNCHANGED <<deploys, dirs, procs, creates, used, ninst>>
    /\ scan' = <<>>
    /\ UNCHANGED kvars

TransferFailed(r) ==
    /\ \E what \in {"download", "upload"} :
        /\ Waiting(r, what)
        /\ Fail(r, pipes[r], Append(pipes[r].v, Out("TransferError", 0, {})))
    /\ UNCHANGED <<deploys, dirs, procs, creates, used, ninst>>
    /\ scan' = <<>>
    /\ UNCHANGED kvars

(* ------------------------------- Next --------------------------------- *)
Reqs == 1..MaxInputs

Next ==
    \/ CreateSession
    \/ CreateSessionDirsFailed
    \/ \E r \in Reqs : ProvisionDone(r)
    \/ \E r \in Reqs : ProvisionFailed(r)
    \/ DestroySession
    \/ GetSessions
    \/ Reaper
    \/ ChildExit
    \/ SessionUpdate
    \/ SessionUpdateRefused
    \/ \E r \in Reqs : PassOpenClose(r)
    \/ \E r \in Reqs : PipeFinish(r)
    \/ \E r \in Reqs : StepExec(r)
    \/ \E r \in Reqs : ExecFailed(r)
    \/ \E r \in Reqs : ExecDone(r)
    \/ \E r \in Reqs : StartSpawnFailed(r)
    \/ \E r \in Reqs : StepStart(r)
    \/ \E r \in Reqs : StepStop(r)
    \/ \E r \in Reqs : KillMailboxError(r)
    \/ \E r \in Reqs : KillWrongResult(r)
    \/ \E r \in Reqs : KillDone(r)
    \/ \E r \in Reqs : StepAddTags(r)
    \/ \E r \in Reqs : StepDelTags(r)
    \/ \E r \in Reqs : StepDownloadFile(r)
    \/ \E r \in Reqs : StepUploadFile(r)
    \/ \E r \in Reqs : UploadRequestFailed(r)
    \/ \E r \in Reqs : TransferDone(r)
    \/ \E r \in Reqs : TransferFailed(r)

Spec == Init /\ [][Next]_vars

(* the actor's event loop: a future that is ready is polled, a request    *)
(* sent to another actor or a transfer ends with a result or an error, and *)
(* the interval timer armed in started() fires again and again            *)
Poll(r) ==
    \/ PassOpenClose(r) \/ PipeFinish(r) \/ StepExec(r) \/ StartSpawnFailed(r)
    \/ StepStart(r) \/ StepStop(r) \/ StepAddTags(r) \/ StepDelTags(r)
    \/ StepDownloadFile(r) \/ StepUploadFile(r) \/ UploadRequestFailed(r)

Answer(r) ==
    \/ ProvisionDone(r) \/ ProvisionFailed(r) \/ ExecDone(r) \/ ExecFailed(r)
    \/ KillDone(r) \/ KillWrongResult(r) \/ KillMailboxError(r)
    \/ TransferDone(r) \/ TransferFailed(r)

FairSpec ==
    /\ Spec
    /\ WF_vars(Reaper)
    /\ WF_vars(\E r \in Reqs : Poll(r))
    /\ WF_vars(\E r \in Reqs : Answer(r))

(* the keystore on its own: EthAccount calls in any order *)
KeySpec == Init /\ [][KeyNext]_vars


(* ============================== claims ================================ *)
Last(q) == q[Len(q)]

(* the commands of a message that have a closure in the chain *)
Chained(cmds) == SelectSeq(cmds, LAMBDA c : c.op \notin {"Open", "Close"})

(* what a command pushes when it succeeds *)
OutKind(op) ==
    CASE op = "Exec"         -> "stdout"
      [] op = "Start"        -> "child"
      [] op = "Stop"         -> "killed"
      [] op = "AddTags"      -> "tags inserted"
      [] op = "DelTags"      -> "tags removed"
      [] op = "DownloadFile" -> "download"
      [] op = "UploadFile"   -> "upload"
      [] OTHER               -> "none"

Replied(op) == reply # <<>> /\ reply[2].op = op

(* the reply of a pipeline that was accepted and then failed at a command *)
PipeFailed == Replied("SessionUpdate") /\ ~reply[2].ok /\ reply[2].pc > 0

(* C1: when a command of an accepted pipeline fails, the reply is Err of   *)
(* the outputs of the commands that succeeded before it, in command order, *)
(* followed by exactly one failure message, and no closure behind the      *)
(* failing one was entered.                                                *)
C1_ErrTrailIsOutputsThenOneFailure ==
    PipeFailed =>
        LET rep == reply[2]
            cs  == Chained(rep.cmds)
        IN  /\ Len(rep.out) = rep.pc
            /\ Last(rep.out).k \in ErrKinds
            /\ \A i \in 1..(Len(rep.out) - 1) :
                   i <= Len(cs) /\ rep.out[i].k = OutKind(cs[i].op)
            /\ rep.log = [i \in 1..rep.pc |-> i]
            /\ Len(cs) = rep.pc

(* C2: the closures of one chain are entered in list order, each once, and *)
(* closure k+1 is entered only when closure k has completed with success;  *)
(* at most one command of a pipeline is in flight, and only while the      *)
(* chain waits for it.                                                     *)
C2_OneCommandAtATime ==
    \A r \in DOMAIN pipes :
        LET p == pipes[r] IN
        /\ \A k \in 1..Len(p.log) :
               /\ p.log[k] = k
               /\ k < Len(p.log) => k < p.pc
        /\ Len(Chained(p.cmds)) = Len(p.log)
        /\ Cardinality({k \in 1..Len(p.log) : p.log[k] >= p.pc}) <= 1
        /\ (p.wait # "none") <=> (Len(p.log) = p.pc)

C2_Witness ==
    \E r \in DOMAIN pipes :
        /\ pipes[r].pc = 2 /\ pipes[r].wait = "kill"
        /\ Len(pipes[r].v) = 1

(* C3: whenever the actor is between two polls, a registered session is    *)
(* RUNNING exactly when its process table is not empty.                    *)
C3_RunningIffProcesses ==
    cur = 0 =>
        \A s \in DOMAIN deploys :
            (deploys[s].status = RUNNING) <=> (DOMAIN deploys[s].processes # {})

(* some Stop of session s has taken its child out and waits for the kill *)
KillPending(s) == \E r \in DOMAIN pipes : pipes[r].sid = s /\ pipes[r].wait = "kill"

(* C4: when the process table of a session becomes empty (and no Stop is   *)
(* still waiting for its kill) the status becomes CONFIGURED, and a        *)
(* CONFIGURED session never goes to PENDING or CREATED.                    *)
C4_ConfiguredNeverReverts ==
    [][\A s \in DOMAIN deploys \cap DOMAIN deploys' :
          deploys'[s].inst = deploys[s].inst =>
            /\ (/\ DOMAIN deploys[s].processes # {}
                /\ DOMAIN deploys'[s].processes = {}
                /\ ~KillPending(s)') => deploys'[s].status = CONFIGURED
            /\ deploys[s].status = CONFIGURED =>
                   deploys'[s].status \notin {PENDING, CREATED}]_vars


ProvisionCauses == {"TransferError", "UnpackError"}

(* C5: CreateSession registers the new session PENDING when it starts the  *)
(* provisioning, and when it replies Ok(session id) that session is        *)
(* registered, CREATED, and its workspace directory exists.                *)
C5_PendingThenCreated ==
    [][/\ \A r \in DOMAIN creates' \ DOMAIN creates :
            LET sid == creates'[r].sid IN
            /\ sid \notin DOMAIN deploys
            /\ sid \in DOMAIN deploys'
            /\ deploys'[sid].status = PENDING
            /\ sid \in dirs'
       /\ (reply' # <<>> /\ reply'[2].op = "CreateSession" /\ reply'[2].ok) =>
            LET sid == reply'[2].sid IN
            /\ reply'[1] \in DOMAIN creates
            /\ sid \in DOMAIN deploys'
            /\ deploys'[sid].status = CREATED
            /\ sid \in dirs']_vars

C5_Witness ==
    /\ Replied("CreateSession") /\ reply[2].ok
    /\ deploys[reply[2].sid].dirty

(* the reply of a CreateSession whose continuation ended in an error *)
CreateFailed ==
    Replied("CreateSession") /\ ~reply[2].ok /\ reply[2].err.cause # "create_dirs"

(* C6 as claimed: after the error reply of a failed provisioning the       *)
(* session is not registered and its workspace directory does not exist.   *)
C6_FailedCreateLeavesNothing ==
    CreateFailed =>
        /\ reply[2].sid \notin DOMAIN deploys
        /\ reply[2].sid \notin dirs

(* C6 amended: after the error reply the session is not registered and its *)
(* directory does not exist, unless the rollback's clear_dir failed: then  *)
(* that error is the reply and the session is still registered with its    *)
(* directory.                                                              *)
C6_RolledBackUnlessClearDirFails ==
    CreateFailed =>
        IF reply[2].err = IoError("clear_dir")
        THEN reply[2].sid \in DOMAIN deploys /\ reply[2].sid \in dirs
        ELSE reply[2].sid \notin DOMAIN deploys /\ reply[2].sid \notin dirs

C6_Witness ==
    /\ CreateFailed
    /\ reply[2].err.cause \in ProvisionCauses
    /\ pipes # <<>>
    /\ procs # <<>>

(* C7: when the provisioning fails and the rollback destroy succeeds, the  *)
(* error of the reply wraps the provisioning cause; when the rollback      *)
(* destroy fails, its error is the reply.                                  *)
C7_RollbackKeepsCause ==
    [][\A r \in DOMAIN creates \ DOMAIN creates' :
          (reply' # <<>> /\ ~reply'[2].ok) =>
            LET sid == creates[r].sid
                err == reply'[2].err
            IN  IF sid \in DOMAIN deploys /\ sid \notin DOMAIN deploys'
                THEN err.k = "IoError" /\ err.cause \in ProvisionCauses
                ELSE IF sid \in DOMAIN deploys
                THEN err = IoError("clear_dir")
                ELSE err = NoSuchSession(sid)]_vars

C7_Witness ==
    /\ CreateFailed
    /\ reply[2].err = IoError("UnpackError")
    /\ reply[2].sid \notin DOMAIN deploys

(* C8: a SessionUpdate for a session id that is not registered is answered *)
(* at once with Err([NoSuchSession]); no chain is built for it and the     *)
(* registry, the process tables, the processes and the workspaces stay.    *)
C8_UnknownSessionRefused ==
    [][Budget =>
       LET r        == NewReq
           accepted == r \in DOMAIN pipes'
           refused  == /\ reply' # <<>> /\ reply'[1] = r
                       /\ reply'[2].op = "SessionUpdate" /\ reply'[2].pc = 0
           sid      == IF accepted THEN pipes'[r].sid ELSE reply'[2].sid
       IN  ((accepted \/ refused) /\ sid \notin DOMAIN deploys) =>
              /\ ~accepted
              /\ ~reply'[2].ok
              /\ reply'[2].out = <<ErrOut(NoSuchSession(sid))>>
              /\ UNCHANGED <<deploys, dirs, procs, pipes, creates>>]_vars

C8_Witness ==
    /\ Replied("SessionUpdate") /\ reply[2].pc = 0
    /\ reply[2].out = <<ErrOut(NoSuchSession(reply[2].sid))>>
    /\ procs # <<>>

(* C9: the child id a successful Start returns is not in the session's     *)
(* process table before the Start; the Start adds exactly that id for the  *)
(* new process and keeps every tracked child under its id; no two ids of a *)
(* table name the same process.                                            *)
C9_StartReturnsFreshId ==
    [][/\ \A r \in DOMAIN pipes \cap DOMAIN pipes' :
            (/\ Len(pipes'[r].v) = Len(pipes[r].v) + 1
             /\ Last(pipes'[r].v).k = "child") =>
                LET s   == pipes[r].sid
                    id  == Last(pipes'[r].v).n
                    old == deploys[s].processes
                    new == deploys'[s].processes
                IN  /\ id \notin DOMAIN old
                    /\ DOMAIN new = DOMAIN old \cup {id}
                    /\ new[id] = Len(procs')
                    /\ \A c \in DOMAIN old : new[c] = old[c]
       /\ \A s \in DOMAIN deploys' :
            \A c, d \in DOMAIN deploys'[s].processes :
                c # d => deploys'[s].processes[c] # deploys'[s].processes[d]]_vars

(* a second Start while the child of the first is still in the table *)
C9_Witness ==
    \E r \in DOMAIN pipes :
        /\ pipes[r].v = <<Out("child", 1, {}), Out("child", 2, {})>>
        /\ DOMAIN deploys[pipes[r].sid].processes = {1, 2}

(* the commands of pipeline r after the step *)
CmdsAfter(r) ==
    IF r \in DOMAIN pipes' THEN pipes'[r].cmds
    ELSE IF reply' # <<>> /\ reply'[1] = r THEN reply'[2].cmds
    ELSE pipes[r].cmds

(* C10: a Stop{child_id} whose child_id is not in the table of the         *)
(* registered session fails the pipeline with NoSuchChild as the last      *)
(* message, and the process table and the status stay as they were.        *)
C10_StopUnknownChild ==
    [][\A r \in DOMAIN pipes :
          LET sid  == pipes[r].sid
              cmds == CmdsAfter(r)
          IN  (/\ pipes[r].wait = "none"
               /\ Len(cmds) = Len(pipes[r].cmds) + 1
               /\ Last(cmds).op = "Stop"
               /\ sid \in DOMAIN deploys
               /\ Last(cmds).child \notin DOMAIN deploys[sid].processes) =>
                  /\ r \notin DOMAIN pipes'
                  /\ reply' # <<>> /\ reply'[1] = r /\ ~reply'[2].ok
                  /\ reply'[2].out =
                        Append(pipes[r].v, ErrOut(NoSuchChild(Last(cmds).child)))
                  /\ deploys' = deploys]_vars

C10_Witness ==
    /\ PipeFailed
    /\ Last(reply[2].out).k = "NoSuchChild"
    /\ Len(reply[2].out) = 2
    /\ reply[2].sid \in DOMAIN deploys
    /\ DOMAIN deploys[reply[2].sid].processes # {}

C12_StartInsertsAndRuns ==
    [][\A r \in DOMAIN pipes :
          LET cmds == CmdsAfter(r) IN
          (/\ pipes[r].wait = "none"
           /\ Len(cmds) = Len(pipes[r].cmds) + 1
           /\ Last(cmds).op = "Start"
           /\ r \in DOMAIN pipes') =>
              LET sid == pipes[r].sid
                  id  == Last(pipes'[r].v).n
              IN  /\ procs' = Append(procs, "running")
                  /\ pipes'[r].v = Append(pipes[r].v, Out("child", id, {}))
                  /\ pipes'[r].wait = "none"
                  /\ pipes'[r].pc = pipes[r].pc + 1
                  /\ id \notin DOMAIN deploys[sid].processes
                  /\ deploys' = [deploys EXCEPT ![sid] =
                        [@ EXCEPT !.processes = Put(@, id, Len(procs')),
                                  !.dirty     = TRUE,
                                  !.status    = RUNNING]]]_vars

(* the first Start of a session that was neither dirty nor RUNNING *)
C12_Witness ==
    \E r \in DOMAIN pipes :
        /\ cur = r
        /\ pipes[r].v = <<Out("child", 1, {})>>
        /\ deploys[pipes[r].sid].status = RUNNING
        /\ deploys[pipes[r].sid].dirty
        /\ procs = <<"running">>

(* the children of a table that are no longer running *)
Exited(processes) == {id \in DOMAIN processes : procs[processes[id]] # "running"}

(* C13: a run of the Reaper removes from every registered session's table  *)
(* exactly the children that have exited (and whose poll did not fail),    *)
(* keeps the others under their ids, and sets the status to CONFIGURED     *)
(* exactly when it removed a child and the table is empty afterwards; it   *)
(* changes nothing else.                                                   *)
C13_ReaperRemovesExited ==
    [][scan' # <<>> =>
        /\ DOMAIN deploys' = DOMAIN deploys
        /\ \A s \in DOMAIN deploys :
              LET old     == deploys[s].processes
                  new     == deploys'[s].processes
                  removed == DOMAIN old \ DOMAIN new
              IN  /\ removed = Exited(old) \ scan'[1]
                  /\ DOMAIN new \subseteq DOMAIN old
                  /\ \A id \in DOMAIN new : new[id] = old[id]
                  /\ deploys'[s] =
                        [deploys[s] EXCEPT
                            !.processes = new,
                            !.status = IF removed # {} /\ DOMAIN new = {}
                                       THEN CONFIGURED ELSE @]
        /\ UNCHANGED <<dirs, procs, pipes, creates>>]_vars

(* the Reaper has run after the only child of a session exited by itself *)
C13_Witness ==
    /\ scan = <<{}>>
    /\ procs = <<"exited">>
    /\ \E s \in DOMAIN deploys :
          /\ deploys[s].status = CONFIGURED
          /\ DOMAIN deploys[s].processes = {}

(* the step sends the Ok reply of a DestroySession *)
DestroyedOk == reply' # <<>> /\ reply'[2].op = "DestroySession" /\ reply'[2].ok

DestroyFailed ==
    /\ reply' # <<>> /\ reply'[2].op = "DestroySession" /\ ~reply'[2].ok
    /\ reply'[2].sid \in DOMAIN deploys

(* C15: when the teardown of a registered session fails, DestroySession    *)
(* replies with the teardown's error and the session stays registered as   *)
(* it was, with its directory; a step takes an entry out of the registry   *)
(* only with a teardown that succeeded.                                    *)
C15_FailedDestroyKeepsSession ==
    [][/\ DestroyFailed =>
            /\ reply'[2].err = IoError("clear_dir")
            /\ deploys' = deploys
            /\ dirs' = dirs
       /\ \A sid \in DOMAIN deploys \ DOMAIN deploys' :
            /\ sid \notin dirs'
            /\ reply' # <<>> /\ reply'[2].sid = sid
            /\ reply'[2].op = "DestroySession" => reply'[2].ok]_vars

(* the teardown killed the child and then failed: the session is still there *)
C15_Witness ==
    /\ Replied("DestroySession") /\ ~reply[2].ok
    /\ reply[2].err = IoError("clear_dir")
    /\ reply[2].sid \in DOMAIN deploys
    /\ procs = <<"killed">>

(* C16: when a step of the teardown of a registered session fails -- the   *)
(* kill of a tracked child, or the removal of the directory --             *)
(* DestroySession replies with an error and the session stays registered.  *)
C16_AnyTeardownFailureSurfaces ==
    [][(/\ reply' # <<>> /\ reply'[2].op = "DestroySession"
        /\ reply'[2].sid \in DOMAIN deploys
        /\ (reply'[2].failed # {} \/ reply'[2].sid \in dirs')) =>
            /\ ~reply'[2].ok
            /\ reply'[2].sid \in DOMAIN deploys']_vars

(* the step runs a tag command of pipeline r *)
TagStep(r) ==
    /\ pipes[r].wait = "none"
    /\ Len(CmdsAfter(r)) = Len(pipes[r].cmds) + 1
    /\ Last(CmdsAfter(r)).op \in {"AddTags", "DelTags"}

(* the tag set a tag command yields *)
TagsAfter(tags, cmd) ==
    IF cmd.op = "AddTags" THEN tags \cup Range(cmd.tags) ELSE tags \ Range(cmd.tags)

(* the step completed the tag command of r: its output lists the tag set   *)
(* the session has after the mutation                                      *)
TagStepOk(r) ==
    LET sid == pipes[r].sid
        cmd == Last(CmdsAfter(r))
    IN  /\ r \in DOMAIN pipes'
        /\ sid \in DOMAIN deploys /\ sid \in DOMAIN deploys'
        /\ deploys' = [deploys EXCEPT ![sid].tags = TagsAfter(@, cmd)]
        /\ pipes'[r].v =
              Append(pipes[r].v, Out(OutKind(cmd.op), 0, deploys'[sid].tags))
        /\ pipes'[r].pc = pipes[r].pc + 1

(* C17 as claimed: a tag command of an accepted pipeline always succeeds   *)
(* and its output reports the resulting tag set.                           *)
C17_TagsAlwaysSucceed ==
    [][\A r \in DOMAIN pipes : TagStep(r) => TagStepOk(r)]_vars

(* C17 amended: a tag command succeeds and reports the resulting tag set   *)
(* when the session is registered at the moment the command runs; when    *)
(* the session has been removed since the pipeline was accepted, the       *)
(* command fails the pipeline with NoSuchSession and changes nothing.      *)
C17_TagsSucceedWhileRegistered ==
    [][\A r \in DOMAIN pipes :
          TagStep(r) =>
            IF pipes[r].sid \in DOMAIN deploys
            THEN TagStepOk(r)
            ELSE /\ r \notin DOMAIN pipes'
                 /\ reply' # <<>> /\ reply'[1] = r /\ ~reply'[2].ok
                 /\ reply'[2].out =
                       Append(pipes[r].v, ErrOut(NoSuchSession(pipes[r].sid)))
                 /\ deploys' = deploys]_vars

(* an AddTags ran after the provisioning had completed behind the pipeline *)
C17_Witness ==
    \E r \in DOMAIN pipes :
        /\ cur = r
        /\ Last(pipes[r].cmds).op = "AddTags"
        /\ Last(pipes[r].v) = Out("tags inserted", 0, {"a", "b"})
        /\ deploys[pipes[r].sid].tags = {"a", "b"}
        /\ deploys[pipes[r].sid].status = CREATED

(* a tag list without its repetitions *)
RECURSIVE Dedup(_)
Dedup(list) ==
    IF list = <<>> THEN <<>>
    ELSE <<Head(list)>> \o SelectSeq(Dedup(Tail(list)), LAMBDA t : t # Head(list))

(* C18: an AddTags leaves the tag set that the same list without its       *)
(* repetitions leaves, running the same AddTags again on the result        *)
(* changes nothing, and an AddTags that follows the same AddTags in a      *)
(* pipeline leaves the tag set as it is.                                   *)
C18_AddTagsIdempotent ==
    [][\A r \in DOMAIN pipes :
          (TagStep(r) /\ Last(CmdsAfter(r)).op = "AddTags" /\ r \in DOMAIN pipes') =>
            LET sid    == pipes[r].sid
                list   == Last(CmdsAfter(r)).tags
                before == deploys[sid].tags
                after  == deploys'[sid].tags
            IN  /\ after = AddEach(before, Dedup(list))
                /\ AddEach(after, list) = after
                /\ (/\ cur = r
                    /\ pipes[r].cmds # <<>>
                    /\ Last(pipes[r].cmds) = Last(CmdsAfter(r))) => after = before]_vars

(* the same AddTags, with a repeated tag, ran twice in a row *)
C18_Witness ==
    \E r \in DOMAIN pipes :
        /\ pipes[r].cmds = <<Cmd("AddTags", 0, <<"b", "b">>), Cmd("AddTags", 0, <<"b", "b">>)>>
        /\ pipes[r].v = <<Out("tags inserted", 0, {"a", "b"}),
                          Out("tags inserted", 0, {"a", "b"})>>

(* the Ok reply of a pipeline *)
PipeOk == Replied("SessionUpdate") /\ reply[2].ok

(* C19 as claimed: the Ok reply of a pipeline has one output per command   *)
(* of the message, the i-th being the output of the i-th command.          *)
C19_OneOutputPerCommand ==
    PipeOk =>
        /\ Len(reply[2].out) = Len(reply[2].cmds)
        /\ \A i \in 1..Len(reply[2].out) :
               reply[2].out[i].k = OutKind(reply[2].cmds[i].op)

(* C19 amended: the Ok reply of a pipeline has one output per command      *)
(* other than Open and Close, in the order of these commands; Open and     *)
(* Close contribute no output.                                             *)
C19_OneOutputPerChainedCommand ==
    PipeOk =>
        LET cs == Chained(reply[2].cmds) IN
        /\ Len(reply[2].out) = Len(cs)
        /\ \A i \in 1..Len(cs) : reply[2].out[i].k = OutKind(cs[i].op)

(* a pipeline of an Open and one other command has replied Ok *)
C19_Witness ==
    /\ PipeOk
    /\ Len(reply[2].cmds) = 2
    /\ Len(reply[2].out) = 1
    /\ reply[2].cmds[1].op = "Open"

(* C20: an Open or a Close of a pipeline never fails and changes nothing   *)
(* but the pipeline's position in its command list: the registry with      *)
(* every session's status, process table, tags and dirty flag, the         *)
(* workspaces, the processes and the pipeline's outputs stay, and no reply *)
(* is sent.                                                                *)
C20_OpenCloseNoEffect ==
    [][\A r \in DOMAIN pipes :
          (/\ pipes[r].wait = "none"
           /\ Len(CmdsAfter(r)) = Len(pipes[r].cmds) + 1
           /\ Last(CmdsAfter(r)).op \in {"Open", "Close"}) =>
              /\ r \in DOMAIN pipes'
              /\ pipes' = [pipes EXCEPT ![r].cmds = CmdsAfter(r)]
              /\ reply' = <<>>
              /\ UNCHANGED <<deploys, dirs, procs, creates>>]_vars

(* an Open or a Close went through after its session had been removed *)
C20_Witness ==
    \E r \in DOMAIN pipes :
        /\ pipes[r].cmds # <<>>
        /\ Last(pipes[r].cmds).op \in {"Open", "Close"}
        /\ pipes[r].sid \notin DOMAIN deploys

(* the step ends pipeline r with an error reply *)
FailsNow(r) ==
    /\ r \notin DOMAIN pipes'
    /\ reply' # <<>> /\ reply'[1] = r /\ ~reply'[2].ok

(* C21: the step in which a command of a pipeline fails leaves every       *)
(* session as it is -- process tables, tags, status -- and the workspaces: *)
(* what the earlier commands of the pipeline did is not undone.            *)
C21_FailureUndoesNothing ==
    [][\A r \in DOMAIN pipes :
          FailsNow(r) => UNCHANGED <<deploys, dirs>>]_vars

(* a Stop failed behind an AddTags of the same pipeline: the tags the      *)
(* AddTags left are still there                                            *)
C21_Witness ==
    /\ PipeFailed
    /\ Len(reply[2].cmds) = 2
    /\ reply[2].out = <<Out("tags inserted", 0, {"a", "b"}),
                        ErrOut(NoSuchChild(Last(reply[2].cmds).child))>>
    /\ deploys[reply[2].sid].tags = {"a", "b"}

(* C22: a suspended command of a pipeline excludes nothing: while it waits *)
(* the actor is not polling that pipeline, the Reaper can run, a new       *)
(* request can be handled, and every other pipeline of the same session    *)
(* that is ready can run its next command on the session.                  *)
C22_SuspensionExcludesNothing ==
    \A r \in DOMAIN pipes :
        pipes[r].wait # "none" =>
            /\ cur # r
            /\ cur = 0 => ENABLED Reaper
            /\ Idle => ENABLED (SessionUpdate \/ SessionUpdateRefused)
            /\ Idle => ENABLED DestroySession
            /\ \A q \in DOMAIN pipes \ {r} :
                  (pipes[q].sid = pipes[r].sid /\ Ready(q) /\ Budget) =>
                      ENABLED StepStop(q) /\ ENABLED StepAddTags(q)

(* the Reaper has run between a Stop's removal of the last child and the   *)
(* Stop's status update: it saw an empty table on a RUNNING session        *)
C22_Witness ==
    \E r \in DOMAIN pipes :
        /\ pipes[r].wait = "kill"
        /\ scan # <<>>
        /\ pipes[r].sid \in DOMAIN deploys
        /\ DOMAIN deploys[pipes[r].sid].processes = {}
        /\ deploys[pipes[r].sid].status = RUNNING

(* C23: the reply of GetSessions lists every registered session exactly    *)
(* once and no other, each with its current status, tags and note and      *)
(* with exactly the child ids of its process table, each once.             *)
C23_GetSessionsIsTheRegistry ==
    Replied("GetSessions") =>
        LET infos == reply[2].infos IN
        /\ reply[2].ok
        /\ {infos[i].id : i \in DOMAIN infos} = DOMAIN deploys
        /\ Len(infos) = Cardinality(DOMAIN deploys)
        /\ \A i \in DOMAIN infos :
              LET sess == deploys[infos[i].id] IN
              /\ infos[i].status = sess.status
              /\ infos[i].tags = sess.tags
              /\ infos[i].note = sess.note
              /\ Range(infos[i].processes) = DOMAIN sess.processes
              /\ Len(infos[i].processes) = Cardinality(DOMAIN sess.processes)

(* a RUNNING session with its tracked child has been listed *)
C23_Witness ==
    /\ Replied("GetSessions")
    /\ Len(reply[2].infos) = 1
    /\ reply[2].infos[1].processes = <<1>>
    /\ reply[2].infos[1].status = RUNNING

C25_PollErrorIsStillRunning ==
    [][scan' # <<>> =>
        /\ reply' = <<>>
        /\ UNCHANGED <<pipes, creates, procs, dirs>>
        /\ \A s \in DOMAIN deploys :
              \A id \in DOMAIN deploys[s].processes :
                  LET kept == /\ s \in DOMAIN deploys'
                              /\ id \in DOMAIN deploys'[s].processes
                              /\ deploys'[s].processes[id] = deploys[s].processes[id]
                  IN  IF id \in scan'[1] \/ procs[deploys[s].processes[id]] = "running"
                      THEN kept ELSE ~kept]_vars

(* the poll of an exited child failed: the child is still tracked *)
C25_Witness ==
    /\ scan = <<{1}>>
    /\ procs = <<"exited">>
    /\ \E s \in DOMAIN deploys :
          /\ DOMAIN deploys[s].processes = {1}
          /\ deploys[s].status = RUNNING

(* C26: a load_or_generate on a path that has no file, with usable random  *)
(* bytes and a working file system, writes a key file holding the key it   *)
(* returns under the given password; a load_or_generate on a path that has *)
(* a file leaves every file as it is and, given the file's password,       *)
(* returns the account of the key stored there without generating one; and *)
(* no call ever replaces the key stored at a path by a different key.      *)
C26_LoadOrGenerateRoundTrip ==
    [][/\ \A p \in KeyPaths :
            keyfiles[p].kind = "keyfile" /\ keyfiles'[p].kind = "keyfile"
                => keyfiles'[p].secret = keyfiles[p].secret
       /\ LET c == Last(calls')
          IN  c.op = "load_or_generate" =>
                IF keyfiles[c.path].kind = "none"
                THEN c.raw # 0 /\ c.io = "ok" =>
                        /\ c.ok
                        /\ c.log_msg = "generated and saved"
                        /\ c.account.secret = c.raw
                        /\ keyfiles'[c.path] = KeyFile(c.account.secret, c.password)
                ELSE /\ keyfiles' = keyfiles
                     /\ c.ok <=> keyfiles[c.path] = KeyFile(keyfiles[c.path].secret, c.password)
                     /\ c.ok =>
                          /\ c.log_msg = "loaded"
                          /\ c.account.address = address(public(keyfiles[c.path].secret))
                          /\ c.account.public = public(keyfiles[c.path].secret)]_vars

(* a key was generated at keystore.json and the next call, with the same   *)
(* password, loaded it again                                              *)
C26_Witness ==
    /\ Len(calls) = 2
    /\ calls[1].op = "load_or_generate" /\ calls[1].log_msg = "generated and saved"
    /\ calls[2].op = "load_or_generate" /\ calls[2].log_msg = "loaded"
    /\ calls[2].path = calls[1].path
    /\ calls[2].password = calls[1].password
    /\ calls[2].account.address = calls[1].account.address
    /\ calls[2].account.public = calls[1].account.public
    /\ account.kestore_path = "keystore.json"

(* C27: after a change_password that succeeded the key file at the         *)
(* account's keystore path holds the account's own key under the new       *)
(* password, and a load_or_generate on that path that follows it succeeds  *)
(* exactly with the new password and then returns the same key, loaded.    *)
C27_ChangePasswordReencrypts ==
    /\ calls # <<>> /\ Last(calls).op = "change_password" /\ Last(calls).ok
          => keyfiles[account.kestore_path] = KeyFile(account.secret, Last(calls).password)
    /\ (/\ Len(calls) = 2
        /\ calls[1].op = "change_password" /\ calls[1].ok
        /\ calls[2].op = "load_or_generate"
        /\ calls[2].path = calls[1].path)
          => /\ calls[2].ok <=> calls[2].password = calls[1].password
             /\ calls[2].ok =>
                  /\ calls[2].log_msg = "loaded"
                  /\ calls[2].account.secret = calls[1].account.secret
                  /\ calls[2].account.address = calls[1].account.address

(* the password was changed and the load that followed, with the password  *)
(* the key was generated under, failed on a key file that is in place      *)
C27_Witness ==
    /\ Len(calls) = 2
    /\ calls[1].op = "change_password" /\ calls[1].ok
    /\ calls[1].password = "hekloo"
    /\ calls[2].op = "load_or_generate" /\ ~calls[2].ok
    /\ calls[2].path = calls[1].path
    /\ calls[2].password = "pwd"
    /\ keyfiles[calls[2].path] = KeyFile(account.secret, "hekloo")

(* the children tracked by session s whose process has ended *)
ExitedIn(s) ==
    IF s \in DOMAIN deploys THEN Exited(deploys[s].processes) ELSE {}

(* the session is gone, or Configured, or tracks a child that is running *)
Settled(s) ==
    \/ s \notin DOMAIN deploys
    \/ deploys[s].status = CONFIGURED
    \/ \E id \in DOMAIN deploys[s].processes :
          procs[deploys[s].processes[id]] = "running"

(* C28: with the Reaper, the polling of ready futures and the answers to   *)
(* pending requests scheduled fairly, and with scans whose polls all       *)
(* succeed coming back again and again, every tracked child that has       *)
(* exited is at some later point not in its session's process table, and   *)
(* from every state in which a session tracks an exited child a state      *)
(* follows in which the session is destroyed, or tracks a running child,   *)
(* or has the status Configured.                                           *)
C28_ExitedChildrenAreReaped ==
    ([]<>(scan = <<{}>>)) =>
        \A s \in SessionIds :
            /\ \A id \in ChildIds : (id \in ExitedIn(s)) ~> (id \notin ExitedIn(s))
            /\ (ExitedIn(s) # {}) ~> Settled(s)

(* the step keeps the SessionInfo registered under s *)
SameSession(s) ==
    /\ s \in DOMAIN deploys /\ s \in DOMAIN deploys'
    /\ deploys'[s].inst = deploys[s].inst

(* the step puts a process into the table of s *)
Inserted(s) ==
    \E id \in DOMAIN deploys'[s].processes :
        \/ id \notin DOMAIN deploys[s].processes
        \/ deploys'[s].processes[id] # deploys[s].processes[id]

(* the step is the completion of an Exec sent for session id s, with the   *)
(* session id registered                                                   *)
ExecCompleted(s) ==
    \E r \in DOMAIN pipes :
        /\ pipes[r].wait = "exec" /\ pipes[r].sid = s
        /\ r \in DOMAIN pipes' /\ pipes'[r].pc = pipes[r].pc + 1

(* C29 as stated: a session starts with dirty false, and after every step  *)
(* dirty is true exactly if it was true before or the step inserted a      *)
(* process into the session's table.                                       *)
C29_DirtyIffEverInserted ==
    [][\A s \in DOMAIN deploys' :
          deploys'[s].dirty =
              (SameSession(s) /\ (deploys[s].dirty \/ Inserted(s)))]_vars

(* C29: a session starts with dirty false, and after every step dirty is   *)
(* true exactly if it was true before, or the step inserted a process into *)
(* the session's table, or the step completed an Exec command sent for the *)
(* session's id.                                                           *)
C29_DirtyIffInsertedOrExecuted ==
    [][\A s \in DOMAIN deploys' :
          deploys'[s].dirty =
              (SameSession(s) /\
                  (deploys[s].dirty \/ Inserted(s) \/ ExecCompleted(s)))]_vars

(* a session is dirty and no process has been spawned at all *)
C29_Witness ==
    /\ procs = <<>>
    /\ \E s \in DOMAIN deploys :
          /\ deploys[s].dirty
          /\ deploys[s].processes = <<>>

RunningEmpty(s) ==
    /\ s \in DOMAIN deploys
    /\ deploys[s].processes = <<>>
    /\ deploys[s].status = RUNNING

(* C31: with the Reaper, the polling of ready futures and the answers to   *)
(* pending requests scheduled fairly, from every state in which a          *)
(* registered session has an empty process table and the status Running a  *)
(* state follows in which the session is destroyed, or tracks a child      *)
(* again, or has another status.                                           *)
C31_EmptyTableLeavesRunning ==
    \A s \in SessionIds : RunningEmpty(s) ~> ~RunningEmpty(s)

(* C32: a step of a deferred continuation (the completion of a             *)
(* CreateSession, a closure of a pipeline or the answer it waits for) that *)
(* changes or removes the session registered under its session id acts on  *)
(* the SessionInfo that was registered under that id when its request was  *)
(* accepted.                                                               *)
C32_ContinuationsKeepToTheirInstance ==
    [][\A s \in DOMAIN deploys :
          (s \notin DOMAIN deploys' \/ deploys'[s] # deploys[s]) =>
              /\ \A r \in DOMAIN creates \ DOMAIN creates' :
                    creates[r].sid = s => creates[r].inst = deploys[s].inst
              /\ \A r \in DOMAIN pipes :
                    (/\ pipes[r].sid = s
                     /\ (r \notin DOMAIN pipes' \/ pipes'[r] # pipes[r]))
                        => pipes[r].inst = deploys[s].inst]_vars

=============================================================================
